---- MODULE Spec2Model ----
(***************************************************************************)
(* Temporal landing zone (DataCollector, HDFS) and persistent zone         *)
(* (PersistenceLoader, HBase) of hdfs-hbase-temporal-persistent-zones.     *)
(*                                                                         *)
(* Text is modelled as a sequence of one-character strings, so that the    *)
(* f-strings, split('_'), endswith, strip and the regular expression of    *)
(* the source are computed character by character.                         *)
(***************************************************************************)
EXTENDS Integers, Sequences, FiniteSets, TLC

\* ------------------------------------------------------------------ bounds
\* Longest staged listing of the source directory under study.
MaxFiles == 2
\* Number of times the persistence-loading command is run over the same
\* staged files (SpecReload only).
MaxRuns == 2
\* Longest list of local files the collector uploads per format.
MaxLocal == 2

\* ------------------------------------------------------------------ state
VARIABLES
    staged,         \* handler -> listing of its staging directory
    utc_offset,     \* time zone of the machine running the loader
    pc,             \* construct, income, veh, lookup, idealista, close, done
    phase,          \* start, file, rows: the place inside the running handler
    run,            \* how many times the loader command has been started
    connection,     \* self.connection: TRUE a handle, FALSE None
    tables,         \* HBase: the tables with their column families
    ensured,        \* every create_table call on an open connection, in order
    cells,          \* HBase: the stored cells
    fi,             \* position of `filename` in `filenames`
    ri,             \* position of the next row (object) the loop reads
    num_rows,       \* local num_rows of the CSV handlers
    column_names,   \* local column_names
    valid_year,     \* local valid_year, unbound until a data row assigns it
    source_name,    \* local source_name of load_lookup_tables
    valid_time,     \* local valid_time of load_idealista
    puts,           \* every table.put call made, in order
    opened,         \* every staged file a handler opened, in order
    now,            \* the clock reading datetime.now() gives
    errorLogged,    \* logger.exception was called in this run
    successLogged,  \* main logged the success message in this run
    snap,           \* the stored cells, ingestion dates left out, when the
                    \* previous run ended
    local_csv,      \* data collection: glob of **/*.csv under the data root
    local_json,     \* data collection: glob of **/*.json under the data root
    resources,      \* data collection: the resources the catalog lists
    c_pc,           \* data collection: the place in main and the collector
    c_i,            \* data collection: position in the list being looped over
    client_closed,  \* self.client.close() was called and returned
    hdfs_dirs,      \* HDFS: the directories that exist
    hdfs_writes,    \* every client.write call made, in order
    dir_calls,      \* every create_hdfs_dir call made, in order
    c_errorLogged,  \* data collection: logger.exception was called
    c_successLogged \* data collection: main logged the success message

col == <<local_csv, local_json, resources, c_pc, c_i, client_closed, hdfs_dirs,
         hdfs_writes, dir_calls, c_errorLogged, c_successLogged>>
\* What no step of the loader changes: its inputs and the collector.
env == <<staged, utc_offset, col>>
ctl == <<pc, phase, connection, errorLogged>>
loc == <<fi, ri, num_rows, column_names, valid_year, source_name, valid_time>>
misc == <<run, now, successLogged, snap, opened>>
vars == <<staged, utc_offset, pc, phase, run, connection, tables, ensured, cells, fi, ri,
          num_rows, column_names, valid_year, source_name, valid_time, puts, opened,
          now, errorLogged, successLogged, snap, local_csv, local_json, resources, c_pc,
          c_i, client_closed, hdfs_dirs, hdfs_writes, dir_calls, c_errorLogged,
          c_successLogged>>
loader == <<staged, utc_offset, pc, phase, run, connection, tables, ensured, cells, fi, ri,
            num_rows, column_names, valid_year, source_name, valid_time, puts, opened,
            now, errorLogged, successLogged, snap>>

\* ------------------------------------------------------- text primitives
DigitChars == <<"0","1","2","3","4","5","6","7","8","9">>

IsDigit(c) == \E i \in 1..10 : DigitChars[i] = c

DigitVal(c) == (CHOOSE i \in 1..10 : DigitChars[i] = c) - 1

RECURSIVE NatStr(_)
NatStr(n) == IF n < 10 THEN <<DigitChars[n + 1]>>
             ELSE NatStr(n \div 10) \o <<DigitChars[(n % 10) + 1]>>

\* Python str(n) of an int.
PyStrInt(n) == IF n < 0 THEN <<"-">> \o NatStr(0 - n) ELSE NatStr(n)

RECURSIVE DigitsVal(_)
DigitsVal(s) == IF s = <<>> THEN 0
                ELSE DigitsVal(SubSeq(s, 1, Len(s) - 1)) * 10 + DigitVal(s[Len(s)])

\* sep.join(parts)
RECURSIVE PyJoin(_, _)
PyJoin(sep, parts) ==
    IF parts = <<>> THEN <<>>
    ELSE IF Len(parts) = 1 THEN parts[1]
    ELSE parts[1] \o sep \o PyJoin(sep, Tail(parts))

\* s.endswith(suffix)
EndsWith(s, suffix) ==
    /\ Len(s) >= Len(suffix)
    /\ SubSeq(s, Len(s) - Len(suffix) + 1, Len(s)) = suffix

\* s.split('_')[0]: the text before the first underscore, all of s when it
\* holds none.
SplitFirst(s) ==
    IF \E i \in 1..Len(s) : s[i] = "_"
    THEN SubSeq(s, 1, (CHOOSE i \in 1..Len(s) :
                          s[i] = "_" /\ \A j \in 1..(i - 1) : s[j] # "_") - 1)
    ELSE s

\* The text after the last underscore of s (all of s when it holds none).
LastSegment(s) ==
    IF \E i \in 1..Len(s) : s[i] = "_"
    THEN SubSeq(s, (CHOOSE i \in 1..Len(s) :
                       s[i] = "_" /\ \A j \in (i + 1)..Len(s) : s[j] # "_") + 1, Len(s))
    ELSE s

\* bytes.strip(): leading and trailing blanks removed.
RECURSIVE PyStrip(_)
PyStrip(s) ==
    IF s = <<>> THEN s
    ELSE IF s[1] = " " THEN PyStrip(Tail(s))
    ELSE IF s[Len(s)] = " " THEN PyStrip(SubSeq(s, 1, Len(s) - 1))
    ELSE s

\* ---------------------------------------------------------------- literals
tn_income == <<"o","p","e","n","d","a","t","a","b","c","n","-","i","n","c","o","m","e">>
tn_veh == <<"v","e","h","_","i","n","d","e","x","_","m","o","t","o","r","i","t","z","a","c","i","o">>
tn_lookup == <<"l","o","o","k","u","p","_","t","a","b","l","e","s">>
tn_idealista == <<"i","d","e","a","l","i","s","t","a">>

fam_data == <<"d","a","t","a">>
fam_metadata == <<"m","e","t","a","d","a","t","a">>
fam_idealista_data == <<"i","d","e","a","l","i","s","t","a","_","d","a","t","a">>
fam_income_data == <<"i","n","c","o","m","e","_","d","a","t","a">>

s_us == <<"_">>
s_data == <<"_","d","a","t","a">>
s_metadata == <<"_","m","e","t","a","d","a","t","a">>
s_csv == <<".","c","s","v">>
s_json == <<".","j","s","o","n">>
s_None == <<"N","o","n","e">>
k_propertyCode == <<"p","r","o","p","e","r","t","y","C","o","d","e">>
k_district == <<"d","i","s","t","r","i","c","t">>
k_neighborhood == <<"n","e","i","g","h","b","o","r","h","o","o","d">>

\* ------------------------------------------- extract_timestamp_from_filename
\* re.search(r'\d{4}_\d{2}_\d{2}', file_name): the set of start positions of
\* a match; the search returns the leftmost.
DateMatches(file_name) ==
    { i \in 1..(Len(file_name) - 9) :
        /\ \A j \in {0, 1, 2, 3, 5, 6, 8, 9} : IsDigit(file_name[i + j])
        /\ file_name[i + 4] = "_"
        /\ file_name[i + 7] = "_" }

DateStr(file_name) ==
    LET i == CHOOSE m \in DateMatches(file_name) :
                 \A n \in DateMatches(file_name) : m <= n
    IN  SubSeq(file_name, i, i + 9)

IsLeap(y) == (y % 4 = 0 /\ y % 100 # 0) \/ y % 400 = 0

DaysInMonth(y, m) ==
    IF m = 2 THEN (IF IsLeap(y) THEN 29 ELSE 28)
    ELSE IF m \in {4, 6, 9, 11} THEN 30 ELSE 31

\* strptime(date_str, '%Y_%m_%d') raises ValueError unless the fields form a
\* date of the proleptic Gregorian calendar.
DateValid(date_str) ==
    LET y == DigitsVal(SubSeq(date_str, 1, 4))
        m == DigitsVal(SubSeq(date_str, 6, 7))
        d == DigitsVal(SubSeq(date_str, 9, 10))
    IN  /\ y >= 1
        /\ m \in 1..12
        /\ d >= 1
        /\ d <= DaysInMonth(y, m)

\* Days from 1970-01-01 to the civil date y-m-d.
DaysFromCivil(y, m, d) ==
    LET yy  == IF m <= 2 THEN y - 1 ELSE y
        era == yy \div 400
        yoe == yy - era * 400
        mp  == (m + 9) % 12
        doy == (153 * mp + 2) \div 5 + d - 1
        doe == yoe * 365 + yoe \div 4 - yoe \div 100 + doy
    IN  era * 146097 + doe - 719468

\* datetime.strptime(...).timestamp() of a naive datetime: local midnight of
\* the date, offset being the offset of the machine's time zone (seconds east
\* of UTC).
DateTimestamp(date_str, offset) ==
    LET y == DigitsVal(SubSeq(date_str, 1, 4))
        m == DigitsVal(SubSeq(date_str, 6, 7))
        d == DigitsVal(SubSeq(date_str, 9, 10))
    IN  DaysFromCivil(y, m, d) * 86400 - offset

\* The call raises (AttributeError on no match, ValueError on a bad date).
TimestampRaises(file_name) ==
    \/ DateMatches(file_name) = {}
    \/ ~DateValid(DateStr(file_name))

extract_timestamp_from_filename(file_name, offset) ==
    PyStrInt(DateTimestamp(DateStr(file_name), offset))

\* ------------------------------------------------------- staged files
\* A staged CSV file is its name and its rows as csv.reader yields them (a
\* row is a list of fields); a staged JSON file is its name and the list of
\* objects json.load yields (an object is its items in order, a value being
\* a string, an integer or null). The header field names are written in
\* ASCII.
income_header ==
    <<<<"A","n","y">>,
      <<"C","o","d","i","_","D","i","s","t","r","i","c","t","e">>,
      <<"N","o","m","_","D","i","s","t","r","i","c","t","e">>,
      <<"C","o","d","i","_","B","a","r","r","i">>,
      <<"N","o","m","_","B","a","r","r","i">>,
      <<"P","o","b","l","a","c","i","o">>,
      <<"I","n","d","e","x">>>>

income_2021 ==
    [name |-> <<"i","n","c","o","m","e","_","2","0","2","1",".","c","s","v">>,
     rows |-> <<income_header,
       <<<<"2","0","2","1">>,
         <<"1">>,
         <<"C","i","u","t","a","t"," ","V","e","l","l","a">>,
         <<"1">>,
         <<"R","a","v","a","l">>,
         <<"5","0","0","0","0">>,
         <<"8","0">>>>>>]

income_2020 ==
    [name |-> <<"i","n","c","o","m","e","_","2","0","2","0",".","c","s","v">>,
     rows |-> <<income_header,
       <<<<"2","0","2","0">>,
         <<"1">>,
         <<"C","i","u","t","a","t"," ","V","e","l","l","a">>,
         <<"1">>,
         <<"R","a","v","a","l">>,
         <<"4","8","0","0","0">>,
         <<"7","9">>>>,
       <<<<"2","0","2","0">>,
         <<"2">>,
         <<"E","i","x","a","m","p","l","e">>,
         <<"5">>,
         <<"F","o","r","t"," ","P","i","e","n","c">>,
         <<"3","0","0","0","0">>,
         <<"1","0","5">>>>>>]

income_header_only ==
    [name |-> <<"i","n","c","o","m","e","_","2","0","1","9",".","c","s","v">>,
     rows |-> <<income_header>>]

income_empty ==
    [name |-> <<"i","n","c","o","m","e","_","2","0","1","8",".","c","s","v">>,
     rows |-> <<>>]

income_notes ==
    [name |-> <<"n","o","t","e","s",".","t","x","t">>,
     rows |-> <<<<<<"s","e","e">>,
         <<" ","o","p","e","n","d","a","t","a">>>>>>]

veh_header ==
    <<<<"A","n","y">>,
      <<"C","o","d","i","_","D","i","s","t","r","i","c","t","e">>,
      <<"N","o","m","_","D","i","s","t","r","i","c","t","e">>,
      <<"C","o","d","i","_","B","a","r","r","i">>,
      <<"N","o","m","_","B","a","r","r","i">>,
      <<"S","e","c","c","i","o","_","C","e","n","s","a","l">>,
      <<"T","i","p","u","s","_","V","e","h","i","c","l","e">>,
      <<"I","n","d","e","x","_","M","o","t","o","r","i","t","z","a","c","i","o">>>>

veh_2021 ==
    [name |-> <<"v","e","h","_","2","0","2","1",".","c","s","v">>,
     rows |-> <<veh_header,
       <<<<"2","0","2","1">>,
         <<"1">>,
         <<"C","i","u","t","a","t"," ","V","e","l","l","a">>,
         <<"1">>,
         <<"R","a","v","a","l">>,
         <<"1">>,
         <<"T","u","r","i","s","m","e","s">>,
         <<"2","5","0">>>>,
       <<<<"2","0","2","1">>,
         <<"1">>,
         <<"C","i","u","t","a","t"," ","V","e","l","l","a">>,
         <<"1">>,
         <<"R","a","v","a","l">>,
         <<"2">>,
         <<"M","o","t","o","s">>,
         <<"1","2","0">>>>>>]

veh_2020 ==
    [name |-> <<"v","e","h","_","2","0","2","0",".","c","s","v">>,
     rows |-> <<veh_header,
       <<<<"2","0","2","0">>,
         <<"2">>,
         <<"E","i","x","a","m","p","l","e">>,
         <<"5">>,
         <<"F","o","r","t"," ","P","i","e","n","c">>,
         <<"1">>,
         <<"T","u","r","i","s","m","e","s">>,
         <<"3","0","0">>>>>>]

veh_header_only ==
    [name |-> <<"v","e","h","_","2","0","1","9",".","c","s","v">>,
     rows |-> <<veh_header>>]

veh_empty ==
    [name |-> <<"v","e","h","_","2","0","1","8",".","c","s","v">>,
     rows |-> <<>>]

veh_short ==
    [name |-> <<"v","e","h","_","2","0","1","7",".","c","s","v">>,
     rows |-> <<veh_header,
       <<<<"2","0","1","7">>,
         <<"1">>,
         <<"C","i","u","t","a","t"," ","V","e","l","l","a">>>>>>]

lookup_header ==
    <<<<"d","i","s","t","r","i","c","t">>,
      <<"n","e","i","g","h","b","o","r","h","o","o","d">>,
      <<"d","i","s","t","r","i","c","t","_","n","_","r","e","c","o","n","c","i","l","e","d">>,
      <<"d","i","s","t","r","i","c","t","_","n">>,
      <<"d","i","s","t","r","i","c","t","_","i","d">>,
      <<"n","e","i","g","h","b","o","r","h","o","o","d","_","n","_","r","e","c","o","n","c","i","l","e","d">>,
      <<"n","e","i","g","h","b","o","r","h","o","o","d","_","n">>,
      <<"n","e","i","g","h","b","o","r","h","o","o","d","_","i","d">>>>

lookup_idealista ==
    [name |-> <<"i","d","e","a","l","i","s","t","a","_","e","x","t","e","n","d","e","d",".","c","s","v">>,
     rows |-> <<lookup_header,
       <<<<"C","i","u","t","a","t"," ","V","e","l","l","a">>,
         <<"E","l"," ","R","a","v","a","l">>,
         <<"C","i","u","t","a","t"," ","V","e","l","l","a">>,
         <<"c","i","u","t","a","t"," ","v","e","l","l","a">>,
         <<"Q","9","4","1","3","8","5">>,
         <<"E","l"," ","R","a","v","a","l">>,
         <<"e","l"," ","r","a","v","a","l">>,
         <<"Q","1","7","5","8","5","0","3">>>>>>]

lookup_income ==
    [name |-> <<"i","n","c","o","m","e","_","o","p","e","n","d","a","t","a","b","c","n","_","e","x","t","e","n","d","e","d",".","c","s","v">>,
     rows |-> <<lookup_header,
       <<<<"C","i","u","t","a","t"," ","V","e","l","l","a">>,
         <<"e","l"," ","R","a","v","a","l">>,
         <<"C","i","u","t","a","t"," ","V","e","l","l","a">>,
         <<"c","i","u","t","a","t"," ","v","e","l","l","a">>,
         <<"Q","9","4","1","3","8","5">>,
         <<"E","l"," ","R","a","v","a","l">>,
         <<"e","l"," ","r","a","v","a","l">>,
         <<"Q","1","7","5","8","5","0","3">>>>,
       <<<<"E","i","x","a","m","p","l","e">>,
         <<"F","o","r","t"," ","P","i","e","n","c">>,
         <<"E","i","x","a","m","p","l","e">>,
         <<"e","i","x","a","m","p","l","e">>,
         <<"Q","6","4","1","2","4">>,
         <<"E","l"," ","F","o","r","t"," ","P","i","e","n","c">>,
         <<"f","o","r","t"," ","p","i","e","n","c">>,
         <<"Q","1","9","0","4","3","0","2"," ">>>>>>]

lookup_rent ==
    [name |-> <<"r","e","n","t","_","l","o","o","k","u","p","_","d","i","s","t","r","i","c","t",".","c","s","v">>,
     rows |-> <<lookup_header,
       <<<<"C","i","u","t","a","t"," ","V","e","l","l","a">>,
         <<"R","a","v","a","l">>,
         <<"C","i","u","t","a","t"," ","V","e","l","l","a">>,
         <<"c","i","u","t","a","t"," ","v","e","l","l","a">>,
         <<"Q","9","4","1","3","8","5">>,
         <<"E","l"," ","R","a","v","a","l">>,
         <<"r","a","v","a","l">>,
         <<"Q","1","7","5","8","5","0","3">>>>>>]

lookup_header_only ==
    [name |-> <<"i","n","c","o","m","e","_","l","o","o","k","u","p","_","d","i","s","t","r","i","c","t",".","c","s","v">>,
     rows |-> <<lookup_header>>]

lookup_empty ==
    [name |-> <<"i","d","e","a","l","i","s","t","a","_","l","o","o","k","u","p",".","c","s","v">>,
     rows |-> <<>>]

idealista_0510 ==
    [name |-> <<"i","d","e","a","l","i","s","t","a","_","2","0","2","2","_","0","5","_","1","0",".","j","s","o","n">>,
     data |-> <<<<<<<<"p","r","o","p","e","r","t","y","C","o","d","e">>, [t |-> "str", s |-> <<"P","1">>, n |-> 0]>>,
         <<<<"d","i","s","t","r","i","c","t">>, [t |-> "str", s |-> <<"D","1">>, n |-> 0]>>,
         <<<<"n","e","i","g","h","b","o","r","h","o","o","d">>, [t |-> "str", s |-> <<"N","1">>, n |-> 0]>>,
         <<<<"p","r","i","c","e">>, [t |-> "int", s |-> <<>>, n |-> 1000]>>>>>>]

idealista_0511 ==
    [name |-> <<"i","d","e","a","l","i","s","t","a","_","2","0","2","2","_","0","5","_","1","1",".","j","s","o","n">>,
     data |-> <<<<<<<<"p","r","o","p","e","r","t","y","C","o","d","e">>, [t |-> "str", s |-> <<"P","1">>, n |-> 0]>>,
         <<<<"d","i","s","t","r","i","c","t">>, [t |-> "str", s |-> <<"D","1">>, n |-> 0]>>,
         <<<<"n","e","i","g","h","b","o","r","h","o","o","d">>, [t |-> "str", s |-> <<"N","1">>, n |-> 0]>>,
         <<<<"p","r","i","c","e">>, [t |-> "int", s |-> <<>>, n |-> 990]>>>>,
       <<<<<<"p","r","o","p","e","r","t","y","C","o","d","e">>, [t |-> "str", s |-> <<"P","2">>, n |-> 0]>>,
         <<<<"p","r","i","c","e">>, [t |-> "int", s |-> <<>>, n |-> 700]>>,
         <<<<"s","t","a","t","u","s">>, [t |-> "str", s |-> <<"g","o","o","d">>, n |-> 0]>>>>>>]

idealista_bad_month ==
    [name |-> <<"i","d","e","a","l","i","s","t","a","_","2","0","2","2","_","1","3","_","0","1",".","j","s","o","n">>,
     data |-> <<<<<<<<"p","r","o","p","e","r","t","y","C","o","d","e">>, [t |-> "str", s |-> <<"P","3">>, n |-> 0]>>,
         <<<<"d","i","s","t","r","i","c","t">>, [t |-> "str", s |-> <<"D","1">>, n |-> 0]>>,
         <<<<"n","e","i","g","h","b","o","r","h","o","o","d">>, [t |-> "str", s |-> <<"N","1">>, n |-> 0]>>,
         <<<<"p","r","i","c","e">>, [t |-> "int", s |-> <<>>, n |-> 500]>>>>>>]

idealista_no_date ==
    [name |-> <<"i","d","e","a","l","i","s","t","a",".","j","s","o","n">>,
     data |-> <<<<<<<<"p","r","o","p","e","r","t","y","C","o","d","e">>, [t |-> "str", s |-> <<"P","4">>, n |-> 0]>>,
         <<<<"d","i","s","t","r","i","c","t">>, [t |-> "str", s |-> <<"D","2">>, n |-> 0]>>,
         <<<<"n","e","i","g","h","b","o","r","h","o","o","d">>, [t |-> "str", s |-> <<"N","2">>, n |-> 0]>>,
         <<<<"p","r","i","c","e">>, [t |-> "int", s |-> <<>>, n |-> 400]>>>>>>]

idealista_empty ==
    [name |-> <<"i","d","e","a","l","i","s","t","a","_","2","0","2","2","_","0","5","_","1","2",".","j","s","o","n">>,
     data |-> <<>>]

\* The files each staging directory may hold.
IncomeFiles == {income_2021, income_2020, income_header_only, income_empty, income_notes}
VehFiles == {veh_2021, veh_2020, veh_header_only, veh_empty, veh_short}
LookupFiles == {lookup_idealista, lookup_income, lookup_rent, lookup_header_only, lookup_empty}
IdealistaFiles == {idealista_0510, idealista_0511, idealista_bad_month, idealista_no_date,
                   idealista_empty}

\* hdfs_client.list(dir): the entries of a directory in the order the
\* listing gives them, a file name occurring once.
Listings(files) ==
    { l \in UNION { [1..n -> files] : n \in 0..MaxFiles } :
        \A i, j \in 1..Len(l) : i # j => l[i].name # l[j].name }

FilePool(h) ==
    CASE h = "income" -> IncomeFiles
      [] h = "veh" -> VehFiles
      [] h = "lookup" -> LookupFiles
      [] h = "idealista" -> IdealistaFiles

\* The staging area when no directory is under study: one regular file per
\* source.
BaseStaged ==
    [h \in {"income", "veh", "lookup", "idealista"} |->
        CASE h = "income" -> <<income_2021>>
          [] h = "veh" -> <<veh_2020>>
          [] h = "lookup" -> <<lookup_idealista>>
          [] h = "idealista" -> <<idealista_0510>>]

\* The staging areas considered: one directory holds any listing of its pool,
\* the other three their regular file.
StagedAreas ==
    UNION { { [BaseStaged EXCEPT ![h] = l] : l \in Listings(FilePool(h)) } :
              h \in {"income", "veh", "lookup", "idealista"} }

\* Offsets of the machine's time zone, in seconds east of UTC (UTC, CEST).
UtcOffsets == {0, 7200}

\* ------------------------------------------------------ row and column rules
\* row[i] of the source, whose lists are indexed from 0.
Col(row, i) == row[i + 1]

Cell(family, qualifier, value) ==
    [family |-> family, qualifier |-> qualifier, value |-> value]

\* Mutant: the clock reading is part of the row key.
income_row_key_with_clock(row) ==
    tn_income \o s_us \o Col(row, 1) \o s_us \o Col(row, 3) \o s_us \o Col(row, 0)
        \o s_us \o NatStr(now)

\* load_opendatabcn_income: row_key
income_row_key(row) ==
    tn_income \o s_us \o Col(row, 1) \o s_us \o Col(row, 3) \o s_us \o Col(row, 0)

\* Mutant: the columns are taken one position too far to the left.
income_data_dict_shifted(row) ==
    { Cell(fam_data, "District_Name", Col(row, 1)),
      Cell(fam_data, "Neighborhood_Name", Col(row, 3)),
      Cell(fam_data, "Population", Col(row, 4)),
      Cell(fam_data, "Index RFD Barcelona = 100", Col(row, 5)) }

\* load_opendatabcn_income: data_dict
income_data_dict(row) ==
    { Cell(fam_data, "District_Name", Col(row, 2)),
      Cell(fam_data, "Neighborhood_Name", Col(row, 4)),
      Cell(fam_data, "Population", Col(row, 5)),
      Cell(fam_data, "Index RFD Barcelona = 100", Col(row, 6)) }

\* load_veh_index_motoritzacio: row_key
veh_row_key(row) ==
    tn_veh \o s_us \o Col(row, 1) \o s_us \o Col(row, 3) \o s_us \o Col(row, 0)

\* load_veh_index_motoritzacio: data_dict
veh_data_dict(row) ==
    { Cell(fam_data, "District_Name", Col(row, 2)),
      Cell(fam_data, "Neighborhood_Name", Col(row, 4)),
      Cell(fam_data, "Seccio_Censal", Col(row, 5)),
      Cell(fam_data, "Tipus_Vehicle", Col(row, 6)),
      Cell(fam_data, "Index_Motoritzacio", Col(row, 7)) }

\* load_lookup_tables: source_name = filename.split('_')[0]
lookup_source_name(filename) == SplitFirst(filename)

\* load_lookup_tables: the key handed to put, row_key.encode('utf-8').strip()
lookup_row_key(row) ==
    PyStrip(tn_lookup \o s_us \o Col(row, 4) \o s_us \o Col(row, 7))

\* load_lookup_tables: the column family f'{source_name}_data'
lookup_family(src_name) == src_name \o s_data

\* load_lookup_tables: data_dict
lookup_data_dict(src_name, row) ==
    { Cell(lookup_family(src_name), "district", Col(row, 0)),
      Cell(lookup_family(src_name), "neighborhood", Col(row, 1)),
      Cell(lookup_family(src_name), "district_n_reconciled", Col(row, 2)),
      Cell(lookup_family(src_name), "district_n", Col(row, 3)),
      Cell(lookup_family(src_name), "neighborhood_n_reconciled", Col(row, 5)),
      Cell(lookup_family(src_name), "neighborhood_n", Col(row, 6)) }

\* The metadata key f"{table_name}_{middle}_metadata" of the four handlers.
metadata_key(table_name, middle) == table_name \o s_us \o middle \o s_metadata

\* metadata_dict of the four handlers. ingestion is the clock reading.
metadata_dict(n_rows, n_cols, names, ingestion) ==
    { Cell(fam_metadata, "num_rows", PyStrInt(n_rows)),
      Cell(fam_metadata, "num_cols", PyStrInt(n_cols)),
      Cell(fam_metadata, "column_names", PyJoin(<<",">>, names)),
      Cell(fam_metadata, "ingestion_date", ingestion) }

\* ------------------------------------------------------------ JSON objects
HasKey(obj, k) == \E i \in 1..Len(obj) : obj[i][1] = k

\* obj[k] of a dict that holds k.
Lookup(obj, k) == obj[CHOOSE i \in 1..Len(obj) : obj[i][1] = k][2]

\* The text an f-string gives a value: str(v).
PyFormat(v) ==
    CASE v.t = "str" -> v.s
      [] v.t = "int" -> PyStrInt(v.n)
      [] OTHER -> s_None

\* property_dict.get(k, None) formatted in the f-string.
GetOrNone(obj, k) == IF HasKey(obj, k) THEN PyFormat(Lookup(obj, k)) ELSE s_None

\* repr of a value of the dict `value`: a str was encoded to bytes (b'...'),
\* an int prints as its digits.
PyReprValue(v) ==
    CASE v.t = "str" -> <<"b", "'">> \o v.s \o <<"'">>
      [] v.t = "int" -> PyStrInt(v.n)
      [] OTHER -> s_None

\* Mutant: the whole object is serialized, key fields included.
RemainderKeepAll(obj) == obj

\* The items of property_dict whose key is none of propertyCode,
\* neighborhood, district, in order.
RECURSIVE Remainder(_)
Remainder(obj) ==
    IF obj = <<>> THEN <<>>
    ELSE IF obj[1][1] \in {k_propertyCode, k_neighborhood, k_district}
         THEN Remainder(Tail(obj))
         ELSE <<obj[1]>> \o Remainder(Tail(obj))

RECURSIVE ReprItems(_)
ReprItems(items) ==
    IF items = <<>> THEN <<>>
    ELSE <<(<<"'">> \o items[1][1] \o <<"'", ":", " ">> \o PyReprValue(items[1][2]))>>
         \o ReprItems(Tail(items))

\* str(value) of a dict: {'k': v, 'k2': v2}
PyStrDict(items) == <<"{">> \o PyJoin(<<",", " ">>, ReprItems(items)) \o <<"}">>

\* Mutant: the timestamp leads the key instead of ending it.
idealista_row_key_time_first(obj, v_time) ==
    v_time \o s_us \o PyFormat(Lookup(obj, k_propertyCode)) \o s_us
        \o GetOrNone(obj, k_district) \o s_us \o GetOrNone(obj, k_neighborhood)

\* load_idealista: key
idealista_row_key(obj, v_time) ==
    PyFormat(Lookup(obj, k_propertyCode)) \o s_us \o GetOrNone(obj, k_district)
        \o s_us \o GetOrNone(obj, k_neighborhood) \o s_us \o v_time

\* load_idealista: the one column of a data row
idealista_data_dict(obj) ==
    { Cell(fam_data, "property_info", PyStrDict(Remainder(obj))) }

\* data[0].keys()
RECURSIVE Keys(_)
Keys(obj) == IF obj = <<>> THEN <<>> ELSE <<obj[1][1]>> \o Keys(Tail(obj))

\* ------------------------------------------------------- handler locals
Unbound == [bound |-> FALSE, val |-> <<>>]
Bound(v) == [bound |-> TRUE, val |-> v]

\* The locals of a handler when it is entered.
LocInit ==
    /\ fi' = 1
    /\ ri' = 1
    /\ num_rows' = 0
    /\ column_names' = <<>>
    /\ valid_year' = Unbound
    /\ source_name' = <<>>
    /\ valid_time' = Unbound

\* ------------------------------------------------------------------ HBase
TableExists(table_name) == \E t \in tables : t.name = table_name

Families(table_name) == (CHOOSE t \in tables : t.name = table_name).families

\* Mutant: the two sets of column families are taken the other way round.
create_table_swapped(table_name, flag) ==
    IF TableExists(table_name) THEN tables
    ELSE IF flag
         THEN tables \cup {[name |-> table_name, families |-> {fam_data, fam_metadata}]}
         ELSE tables \cup {[name |-> table_name,
                            families |-> {fam_idealista_data, fam_income_data,
                                          fam_metadata}]}

\* PersistenceLoader.create_table on an open connection: the tables after it.
create_table(table_name, flag) ==
    IF TableExists(table_name) THEN tables
    ELSE IF ~flag
         THEN tables \cup {[name |-> table_name, families |-> {fam_data, fam_metadata}]}
         ELSE tables \cup {[name |-> table_name,
                            families |-> {fam_idealista_data, fam_income_data,
                                          fam_metadata}]}

\* HBase refuses a mutation that names a column family the table was not
\* created with; table.put then raises.
NoSuchColumnFamily(table_name, dict) ==
    \E c \in dict : c.family \notin Families(table_name)

\* table.put(key, dict): the cells named by dict replace those of the row, the
\* other cells of the row stay.
PutCells(table_name, key, dict) ==
    { c \in cells : ~(/\ c.table = table_name
                      /\ c.key = key
                      /\ \E d \in dict : d.family = c.family /\ d.qualifier = c.qualifier) }
    \cup { [table |-> table_name, key |-> key, family |-> d.family,
            qualifier |-> d.qualifier, value |-> d.value] : d \in dict }

\* The record of one table.put call.
PutCall(h, kind, table_name, key, dict, rec) ==
    [run |-> run, handler |-> h, file |-> fi, filename |-> staged[h][fi].name,
     kind |-> kind, table |-> table_name, key |-> key, dict |-> dict, rec |-> rec,
     stored |-> ~NoSuchColumnFamily(table_name, dict)]

\* -------------------------------------------------------------- control flow
NextPc(h) ==
    CASE h = "construct" -> "income"
      [] h = "income" -> "veh"
      [] h = "veh" -> "lookup"
      [] h = "lookup" -> "idealista"
      [] h = "idealista" -> "close"

\* Mutant: the exception is logged and the connection is left open.
AbortLeavesOpen(h) ==
    /\ connection' = connection
    /\ errorLogged' = TRUE
    /\ pc' = NextPc(h)
    /\ phase' = "start"
    /\ LocInit

\* except Exception: self.close(); self.logger.exception(e) and the handler
\* returns to main, which calls the next one.
Abort(h) ==
    /\ connection' = FALSE
    /\ errorLogged' = TRUE
    /\ pc' = NextPc(h)
    /\ phase' = "start"
    /\ LocInit

\* The handler's for loop over filenames is exhausted: it returns.
Return(h) ==
    /\ pc' = NextPc(h)
    /\ phase' = "start"
    /\ LocInit
    /\ UNCHANGED <<connection, errorLogged>>

\* PersistenceLoader.__init__: connect() opens the connection.
Construct ==
    /\ pc = "construct"
    /\ connection' = TRUE
    /\ pc' = "income"
    /\ phase' = "start"
    /\ UNCHANGED <<errorLogged, env, loc, misc, tables, ensured, cells, puts>>

\* The head of a handler: create_table, connection.table and the listing.
\* With self.connection None, create_table catches the AttributeError of
\* self.connection.tables() itself and self.connection.table(...) raises the
\* next one, which the handler catches.
HandlerStart(h, table_name, flag) ==
    /\ pc = h
    /\ phase = "start"
    /\ IF connection
       THEN /\ tables' = create_table(table_name, flag)
            /\ ensured' = Append(ensured, [run |-> run, table |-> table_name,
                                           existed |-> TableExists(table_name)])
            /\ phase' = "file"
            /\ LocInit
            /\ UNCHANGED <<pc, connection, errorLogged>>
       ELSE /\ Abort(h)
            /\ UNCHANGED <<tables, ensured>>
    /\ UNCHANGED <<env, misc, cells, puts>>

\* for filename in filenames: if filename.endswith(ext): open the file and
\* reset the per-file locals.
NextFile(h, ext) ==
    /\ pc = h
    /\ phase = "file"
    /\ IF fi > Len(staged[h])
       THEN /\ Return(h)
            /\ UNCHANGED opened
       ELSE IF ~EndsWith(staged[h][fi].name, ext)
            THEN /\ fi' = fi + 1
                 /\ UNCHANGED <<ctl, ri, num_rows, column_names, valid_year,
                                source_name, valid_time, opened>>
            ELSE /\ phase' = "rows"
                 /\ opened' = Append(opened, [run |-> run, handler |-> h, file |-> fi])
                 /\ ri' = 1
                 /\ num_rows' = 0
                 /\ column_names' = <<>>
                 /\ source_name' = IF h = "lookup"
                                   THEN lookup_source_name(staged[h][fi].name)
                                   ELSE source_name
                 /\ UNCHANGED <<pc, connection, errorLogged, fi, valid_year, valid_time>>
    /\ UNCHANGED <<env, run, now, successLogged, snap, tables, ensured, cells, puts>>

\* Mutant: the metadata row is written as soon as two rows were read.
RowsExhaustedEarly(h) ==
    \/ ri > 2
    \/ ri > (IF h = "idealista" THEN Len(staged[h][fi].data) ELSE Len(staged[h][fi].rows))

\* `for row in reader` (`for property_dict in data`) has no row left.
RowsExhausted(h) ==
    ri > (IF h = "idealista" THEN Len(staged[h][fi].data) ELSE Len(staged[h][fi].rows))

\* One pass of `for row in reader` of a CSV handler: the first row is the
\* header; a later row is put under key with dict, which needs the fields up
\* to row[last] (IndexError otherwise).
CsvRow(h, table_name, last) ==
    /\ pc = h
    /\ phase = "rows"
    /\ ~RowsExhausted(h)
    /\ LET row == staged[h][fi].rows[ri]
           key == CASE h = "income" -> income_row_key(row)
                    [] h = "veh" -> veh_row_key(row)
                    [] h = "lookup" -> lookup_row_key(row)
           dict == CASE h = "income" -> income_data_dict(row)
                     [] h = "veh" -> veh_data_dict(row)
                     [] h = "lookup" -> lookup_data_dict(source_name, row)
       IN  IF num_rows = 0
           THEN /\ column_names' = row
                /\ num_rows' = num_rows + 1
                /\ ri' = ri + 1
                /\ UNCHANGED <<ctl, fi, valid_year, source_name, valid_time, cells, puts>>
           ELSE IF Len(row) <= last
           THEN /\ Abort(h)
                /\ UNCHANGED <<cells, puts>>
           ELSE /\ puts' = Append(puts, PutCall(h, "data", table_name, key, dict, row))
                /\ IF NoSuchColumnFamily(table_name, dict)
                   THEN /\ Abort(h)
                        /\ UNCHANGED cells
                   ELSE /\ cells' = PutCells(table_name, key, dict)
                        /\ num_rows' = num_rows + 1
                        /\ ri' = ri + 1
                        /\ valid_year' = IF h = "lookup" THEN valid_year
                                         ELSE Bound(Col(row, 0))
                        /\ UNCHANGED <<ctl, fi, column_names, source_name, valid_time>>
    /\ UNCHANGED <<env, misc, tables, ensured>>

\* After the rows of a CSV file: the metadata row. middle is the text between
\* the table name and _metadata in its key, an unbound local raising
\* UnboundLocalError when the key is formatted.
CsvMetadata(h, table_name, middle) ==
    /\ pc = h
    /\ phase = "rows"
    /\ RowsExhausted(h)
    /\ LET dict == metadata_dict(num_rows - 1, Len(column_names), column_names,
                                 NatStr(now))
           key == metadata_key(table_name, middle.val)
       IN  IF ~middle.bound
           THEN /\ Abort(h)
                /\ UNCHANGED <<cells, puts>>
           ELSE /\ puts' = Append(puts, PutCall(h, "metadata", table_name, key, dict,
                                                column_names))
                /\ cells' = PutCells(table_name, key, dict)
                /\ fi' = fi + 1
                /\ phase' = "file"
                /\ UNCHANGED <<pc, connection, errorLogged, ri, num_rows, column_names,
                               valid_year, source_name, valid_time>>
    /\ UNCHANGED <<env, misc, tables, ensured>>

\* ------------------------------------------------ load_opendatabcn_income
load_opendatabcn_income_start == HandlerStart("income", tn_income, FALSE)

load_opendatabcn_income_file == NextFile("income", s_csv)

load_opendatabcn_income_row == CsvRow("income", tn_income, 6)

load_opendatabcn_income_metadata == CsvMetadata("income", tn_income, valid_year)

\* -------------------------------------------- load_veh_index_motoritzacio
load_veh_index_motoritzacio_start == HandlerStart("veh", tn_veh, FALSE)

load_veh_index_motoritzacio_file == NextFile("veh", s_csv)

load_veh_index_motoritzacio_row == CsvRow("veh", tn_veh, 7)

load_veh_index_motoritzacio_metadata == CsvMetadata("veh", tn_veh, valid_year)

\* ----------------------------------------------------- load_lookup_tables
load_lookup_tables_start == HandlerStart("lookup", tn_lookup, TRUE)

load_lookup_tables_file == NextFile("lookup", s_csv)

load_lookup_tables_row == CsvRow("lookup", tn_lookup, 7)

load_lookup_tables_metadata == CsvMetadata("lookup", tn_lookup, Bound(source_name))

\* --------------------------------------------------------- load_idealista
load_idealista_start == HandlerStart("idealista", tn_idealista, FALSE)

load_idealista_file == NextFile("idealista", s_json)

\* One pass of `for property_dict in data`.
load_idealista_row ==
    /\ pc = "idealista"
    /\ phase = "rows"
    /\ ~RowsExhausted("idealista")
    /\ LET obj == staged["idealista"][fi].data[ri]
           filename == staged["idealista"][fi].name
           v_time == extract_timestamp_from_filename(filename, utc_offset)
           key == idealista_row_key(obj, v_time)
           dict == idealista_data_dict(obj)
       IN  IF ~HasKey(obj, k_propertyCode) \/ TimestampRaises(filename)
           THEN /\ Abort("idealista")
                /\ UNCHANGED <<cells, puts>>
           ELSE /\ puts' = Append(puts, PutCall("idealista", "data", tn_idealista, key,
                                                dict, obj))
                /\ cells' = PutCells(tn_idealista, key, dict)
                /\ valid_time' = Bound(v_time)
                /\ ri' = ri + 1
                /\ UNCHANGED <<ctl, fi, num_rows, column_names, valid_year, source_name>>
    /\ UNCHANGED <<env, misc, tables, ensured>>

\* After the objects of a file: num_rows = len(data) and the metadata row,
\* data[0] raising IndexError on an empty list.
load_idealista_metadata ==
    /\ pc = "idealista"
    /\ phase = "rows"
    /\ RowsExhausted("idealista")
    /\ LET data == staged["idealista"][fi].data
           dict == metadata_dict(Len(data), Len(data[1]), Keys(data[1]), NatStr(now))
           key == metadata_key(tn_idealista, valid_time.val)
       IN  IF data = <<>> \/ ~valid_time.bound
           THEN /\ Abort("idealista")
                /\ UNCHANGED <<cells, puts, num_rows>>
           ELSE /\ puts' = Append(puts, PutCall("idealista", "metadata", tn_idealista,
                                                key, dict, Keys(data[1])))
                /\ cells' = PutCells(tn_idealista, key, dict)
                /\ num_rows' = Len(data)
                /\ fi' = fi + 1
                /\ phase' = "file"
                /\ UNCHANGED <<pc, connection, errorLogged, ri, column_names,
                               valid_year, source_name, valid_time>>
    /\ UNCHANGED <<env, misc, tables, ensured>>

\* ------------------------------------------------------------------- main
\* persistence_loader.close() and the success message of main.
Close ==
    /\ pc = "close"
    /\ connection' = FALSE
    /\ successLogged' = TRUE
    /\ pc' = "done"
    /\ UNCHANGED <<phase, errorLogged, env, loc, run, now, snap, opened, tables,
                   ensured, cells,
                   puts>>

\* A call to HBase or HDFS fails (the server is unreachable, the staging
\* directory is missing, a file is no valid JSON): the constructor or the
\* running handler catches the exception.
EnvFault ==
    /\ pc \in {"construct", "income", "veh", "lookup", "idealista"}
    /\ Abort(pc)
    /\ UNCHANGED <<env, misc, tables, ensured, cells, puts>>

\* The loader command is started again over the same staged files, later.
Rerun ==
    /\ pc = "done"
    /\ run < MaxRuns
    /\ run' = run + 1
    /\ now' = now + 1
    /\ snap' = { c \in cells : c.qualifier # "ingestion_date" }
    /\ pc' = "construct"
    /\ phase' = "start"
    /\ connection' = FALSE
    /\ errorLogged' = FALSE
    /\ successLogged' = FALSE
    /\ UNCHANGED <<env, loc, tables, ensured, cells, puts, opened>>

\* ---------------------------------------------------------- DataCollector
\* An HDFS path is the list of its components.
p_landing == <<"l","a","n","d","i","n","g">>
p_csv == <<"c","s","v">>
p_json == <<"j","s","o","n">>
d_income == <<"o","p","e","n","d","a","t","a","b","c","n","-","i","n","c","o","m","e">>
d_lookup == <<"l","o","o","k","u","p","_","t","a","b","l","e","s">>
d_idealista == <<"i","d","e","a","l","i","s","t","a">>

\* A local file: the name of its parent directory, its base name, and
\* whether it can be read and parsed (csv.reader, json.load).
LocalFile(folder, name, readable) ==
    [folder |-> folder, name |-> name, readable |-> readable]

LocalCsvFiles ==
    { LocalFile(d_income, <<"2","0","2","0","_","i","n","c","o","m","e",".","c","s","v">>, TRUE),
      LocalFile(d_income, <<"2","0","2","1","_","i","n","c","o","m","e",".","c","s","v">>, TRUE),
      LocalFile(d_lookup, <<"i","n","c","o","m","e","_","l","o","o","k","u","p",".","c","s","v">>,
                FALSE) }

LocalJsonFiles ==
    { LocalFile(d_idealista, <<"2","0","2","0","_","0","1","_","0","1","_","i","d","e","a","l","i","s","t","a",".","j","s","o","n">>, TRUE),
      LocalFile(d_idealista, <<"2","0","2","0","_","0","1","_","0","2","_","i","d","e","a","l","i","s","t","a",".","j","s","o","n">>, FALSE) }

\* The names of the resources of the catalog's dataset.
ResourceNames ==
    { <<"2","0","1","9","_","v","e","h","_","i","n","d","e","x","_","m","o","t","o","r","i","t","z","a","c","i","o",".","c","s","v">>,
      <<"2","0","2","0","_","v","e","h","_","i","n","d","e","x","_","m","o","t","o","r","i","t","z","a","c","i","o",".","c","s","v">> }

\* The lists of at most MaxLocal different members of a set.
Lists(S) ==
    { l \in UNION { [1..n -> S] : n \in 0..MaxLocal } :
        \A i, j \in 1..Len(l) : i # j => l[i] # l[j] }

\* name.split(".")[0]
BeforeDot(s) ==
    IF \E i \in 1..Len(s) : s[i] = "."
    THEN SubSeq(s, 1, (CHOOSE i \in 1..Len(s) :
                          s[i] = "." /\ \A j \in 1..(i - 1) : s[j] # ".") - 1)
    ELSE s

\* "_".join(s.split("_")[1:]): the text after the first underscore, empty
\* when s holds none.
AfterFirstUnderscore(s) ==
    IF \E i \in 1..Len(s) : s[i] = "_"
    THEN SubSeq(s, (CHOOSE i \in 1..Len(s) :
                       s[i] = "_" /\ \A j \in 1..(i - 1) : s[j] # "_") + 1, Len(s))
    ELSE <<>>

\* download_from_opendata_api_to_hdfs: data_name_str
data_name_str(name) == AfterFirstUnderscore(BeforeDot(name))

\* makedirs(folder) creates folder and the missing ones above it.
Prefixes(folder) == { SubSeq(folder, 1, n) : n \in 1..Len(folder) }

\* Mutant: the existence check is skipped, makedirs is always called.
StatusAlwaysNone(folder) == TRUE

\* self.client.status(folder, strict=False) is None
StatusIsNone(folder) == folder \notin hdfs_dirs

\* except Exception as e: self.client.close(); self.logger.exception(e).
\* hdfs.InsecureClient defines no close method: the attribute lookup raises
\* AttributeError inside the except block, before logger.exception(e) runs
\* and with the client as it was. The new exception leaves the method; an
\* enclosing try block of the collector handles it the same way and raises
\* again, so it reaches the except block of main, which logs it. The run ends
\* there, the success message is not logged.
CloseRaises(raised) ==
    /\ client_closed' = client_closed
    /\ c_errorLogged' = (c_errorLogged \/ raised)

\* DataCollector.create_hdfs_dir(folder), after which an outcome without
\* exception goes on at next. fault names the client call the environment
\* makes fail: none, status or makedirs.
create_hdfs_dir(folder, fault, next) ==
    LET status_raises == fault = "status"
        makedirs_called == ~status_raises /\ StatusIsNone(folder)
        makedirs_raises == makedirs_called /\ fault = "makedirs"
        raised == status_raises \/ makedirs_raises
        dirs == IF makedirs_called /\ ~makedirs_raises
                THEN hdfs_dirs \cup Prefixes(folder)
                ELSE hdfs_dirs
    IN  /\ fault = "makedirs" => StatusIsNone(folder)
        /\ hdfs_dirs' = dirs
        /\ dir_calls' = Append(dir_calls,
               [folder |-> folder,
                existed |-> folder \in hdfs_dirs,
                makedirs |-> IF makedirs_called THEN 1 ELSE 0,
                raised |-> raised,
                changed |-> dirs # hdfs_dirs])
        /\ CloseRaises(raised)
        /\ c_pc' = IF raised THEN "done" ELSE next

Faults == {"none", "status", "makedirs"}

\* DataCollector.upload_file_to_hdfs: client.write, which fault makes fail.
upload_file_to_hdfs(hdfs_dir_path, file, fault, next) ==
    /\ hdfs_writes' = Append(hdfs_writes,
           [path |-> Append(hdfs_dir_path, file.name), stored |-> ~fault])
    /\ CloseRaises(fault)
    /\ c_pc' = IF fault THEN "done" ELSE next

\* DataCollector.__init__: the client and create_hdfs_dir(temporal_landing_dir)
DataCollector_init ==
    /\ c_pc = "construct"
    /\ \E fault \in Faults : create_hdfs_dir(<<p_landing>>, fault, "csv")
    /\ UNCHANGED <<loader, local_csv, local_json, resources, c_i, hdfs_writes,
                   c_successLogged>>

UploadNext(kind) == IF kind = "csv" THEN "json" ELSE "api"

UploadList(kind) == IF kind = "csv" THEN local_csv ELSE local_json

UploadDir(kind) == IF kind = "csv" THEN <<p_landing, p_csv>> ELSE <<p_landing, p_json>>

\* upload_csv_files_to_hdfs, upload_json_files_to_hdfs: the glob and
\* create_hdfs_dir of the format's staging directory.
UploadBegin(kind) ==
    /\ c_pc = kind
    /\ \E fault \in Faults : create_hdfs_dir(UploadDir(kind), fault, kind \o "_mkdir")
    /\ c_i' = 1
    /\ UNCHANGED <<loader, local_csv, local_json, resources, hdfs_writes, c_successLogged>>

\* The head of the loop over the files: create_hdfs_dir of the folder of the
\* file; the method returns when the list is exhausted.
UploadMkdir(kind) ==
    /\ c_pc = kind \o "_mkdir"
    /\ IF c_i > Len(UploadList(kind))
       THEN /\ c_pc' = UploadNext(kind)
            /\ UNCHANGED <<hdfs_dirs, dir_calls, client_closed, c_errorLogged>>
       ELSE \E fault \in Faults :
               create_hdfs_dir(Append(UploadDir(kind), UploadList(kind)[c_i].folder),
                               fault, kind \o "_file")
    /\ UNCHANGED <<loader, local_csv, local_json, resources, c_i, hdfs_writes,
                   c_successLogged>>

\* The rest of the loop body: the local file is read and handed to
\* upload_file_to_hdfs. A file that cannot be read or parsed raises in the
\* method itself.
UploadFile(kind) ==
    /\ c_pc = kind \o "_file"
    /\ LET file == UploadList(kind)[c_i]
       IN  IF ~file.readable
           THEN /\ CloseRaises(TRUE)
                /\ c_pc' = "done"
                /\ UNCHANGED <<c_i, hdfs_writes>>
           ELSE /\ \E fault \in BOOLEAN :
                       upload_file_to_hdfs(Append(UploadDir(kind), file.folder), file,
                                           fault, kind \o "_mkdir")
                /\ c_i' = c_i + 1
    /\ UNCHANGED <<loader, local_csv, local_json, resources, hdfs_dirs, dir_calls,
                   c_successLogged>>

upload_csv_files_to_hdfs_begin == UploadBegin("csv")

upload_csv_files_to_hdfs_mkdir == UploadMkdir("csv")

upload_csv_files_to_hdfs_file == UploadFile("csv")

upload_json_files_to_hdfs_begin == UploadBegin("json")

upload_json_files_to_hdfs_mkdir == UploadMkdir("json")

upload_json_files_to_hdfs_file == UploadFile("json")

\* download_from_opendata_api_to_hdfs: the catalog request, which fails or
\* answers with the resources.
download_request ==
    /\ c_pc = "api"
    /\ \/ /\ c_pc' = "api_mkdir"
          /\ c_i' = 1
          /\ CloseRaises(FALSE)
       \/ /\ c_pc' = "done"
          /\ CloseRaises(TRUE)
          /\ UNCHANGED c_i
    /\ UNCHANGED <<loader, local_csv, local_json, resources, hdfs_dirs, hdfs_writes,
                   dir_calls, c_successLogged>>

\* The head of the loop over the resources: create_hdfs_dir(new_folder).
download_mkdir ==
    /\ c_pc = "api_mkdir"
    /\ IF c_i > Len(resources)
       THEN /\ c_pc' = "success"
            /\ UNCHANGED <<hdfs_dirs, dir_calls, client_closed, c_errorLogged>>
       ELSE \E fault \in Faults :
               create_hdfs_dir(<<p_landing, p_csv, data_name_str(resources[c_i])>>,
                               fault, "api_file")
    /\ UNCHANGED <<loader, local_csv, local_json, resources, c_i, hdfs_writes,
                   c_successLogged>>

\* The resource is downloaded and written by client.write in the method's own
\* try block.
download_write ==
    /\ c_pc = "api_file"
    /\ \E fault \in BOOLEAN :
          /\ hdfs_writes' = Append(hdfs_writes,
                 [path |-> <<p_landing, p_csv, data_name_str(resources[c_i]),
                             resources[c_i]>>,
                  stored |-> ~fault])
          /\ CloseRaises(fault)
          /\ c_pc' = IF fault THEN "done" ELSE "api_mkdir"
          /\ c_i' = IF fault THEN c_i ELSE c_i + 1
    /\ UNCHANGED <<loader, local_csv, local_json, resources, hdfs_dirs, dir_calls,
                   c_successLogged>>

\* main: logger.info('Data collection completed successfully.')
collection_success ==
    /\ c_pc = "success"
    /\ c_successLogged' = TRUE
    /\ c_pc' = "done"
    /\ UNCHANGED <<loader, local_csv, local_json, resources, c_i, client_closed,
                   hdfs_dirs, hdfs_writes, dir_calls, c_errorLogged>>

\* The collector before main constructs it.
CollectorIdle ==
    /\ c_pc = "construct"
    /\ c_i = 1
    /\ client_closed = FALSE
    /\ hdfs_writes = <<>>
    /\ dir_calls = <<>>
    /\ c_errorLogged = FALSE
    /\ c_successLogged = FALSE

\* The loader before main constructs it.
LoaderIdle ==
    /\ pc = "construct"
    /\ phase = "start"
    /\ run = 1
    /\ connection = FALSE
    /\ tables = {}
    /\ ensured = <<>>
    /\ cells = {}
    /\ fi = 1
    /\ ri = 1
    /\ num_rows = 0
    /\ column_names = <<>>
    /\ valid_year = Unbound
    /\ source_name = <<>>
    /\ valid_time = Unbound
    /\ puts = <<>>
    /\ opened = <<>>
    /\ now = 1
    /\ errorLogged = FALSE
    /\ successLogged = FALSE
    /\ snap = {}

\* `main persistence-loading` starts: the collector is not part of the process.
Init ==
    /\ staged \in StagedAreas
    /\ utc_offset \in UtcOffsets
    /\ LoaderIdle
    /\ CollectorIdle
    /\ local_csv = <<>>
    /\ local_json = <<>>
    /\ resources = <<>>
    /\ hdfs_dirs = {}

LoaderStep ==
    \/ Construct
    \/ load_opendatabcn_income_start
    \/ load_opendatabcn_income_file
    \/ load_opendatabcn_income_row
    \/ load_opendatabcn_income_metadata
    \/ load_veh_index_motoritzacio_start
    \/ load_veh_index_motoritzacio_file
    \/ load_veh_index_motoritzacio_row
    \/ load_veh_index_motoritzacio_metadata
    \/ load_lookup_tables_start
    \/ load_lookup_tables_file
    \/ load_lookup_tables_row
    \/ load_lookup_tables_metadata
    \/ load_idealista_start
    \/ load_idealista_file
    \/ load_idealista_row
    \/ load_idealista_metadata
    \/ Close

\* One run of `main persistence-loading`, in an environment that may fail.
Next == LoaderStep \/ EnvFault

Spec == Init /\ [][Next]_vars

\* Repeated runs over the same staged files in an environment that does not
\* fail.
NextReload == LoaderStep \/ Rerun

SpecReload == Init /\ [][NextReload]_vars

\* `main data-collection` starts, over a landing zone that is empty or was
\* laid out by an earlier collection.
InitCollector ==
    /\ staged = BaseStaged
    /\ utc_offset = 0
    /\ LoaderIdle
    /\ CollectorIdle
    /\ local_csv \in Lists(LocalCsvFiles)
    /\ local_json \in Lists(LocalJsonFiles)
    /\ resources \in Lists(ResourceNames)
    /\ hdfs_dirs \in {{}, Prefixes(<<p_landing, p_csv, d_income>>)}

NextCollector ==
    \/ DataCollector_init
    \/ upload_csv_files_to_hdfs_begin
    \/ upload_csv_files_to_hdfs_mkdir
    \/ upload_csv_files_to_hdfs_file
    \/ upload_json_files_to_hdfs_begin
    \/ upload_json_files_to_hdfs_mkdir
    \/ upload_json_files_to_hdfs_file
    \/ download_request
    \/ download_mkdir
    \/ download_write
    \/ collection_success

SpecCollector == InitCollector /\ [][NextCollector]_vars

\* ------------------------------------------------------- reading the logs
CsvHandlers == {"income", "veh", "lookup"}

\* The staged file an entry of `opened` names.
FileOf(o) == staged[o.handler][o.file]

\* The put calls of one kind made for that file in that run.
PutsOf(o, kind) ==
    { i \in 1..Len(puts) :
        /\ puts[i].run = o.run
        /\ puts[i].handler = o.handler
        /\ puts[i].file = o.file
        /\ puts[i].kind = kind }

\* The handler is still reading the file.
InFile(o) == pc = o.handler /\ run = o.run /\ phase = "rows" /\ fi = o.file

\* The number of data rows of the file: the rows after the header.
DataRowCount(o) ==
    IF o.handler = "idealista" THEN Len(FileOf(o).data)
    ELSE IF FileOf(o).rows = <<>> THEN 0 ELSE Len(FileOf(o).rows) - 1

\* The header of the file: its first row, the keys of its first object.
HeaderOf(o) ==
    IF o.handler = "idealista"
    THEN (IF FileOf(o).data = <<>> THEN <<>> ELSE Keys(FileOf(o).data[1]))
    ELSE FileOf(o).rows[1]

HasHeader(o) == o.handler = "idealista" \/ FileOf(o).rows # <<>>

\* The value a put call gives the column with that qualifier.
ValueOf(p, qualifier) == (CHOOSE c \in p.dict : c.qualifier = qualifier).value

\* The stored cells without the ingestion dates.
DataView(cs) == { c \in cs : c.qualifier # "ingestion_date" }

\* ---------------------------------------------------------------------- C1
\* C1 (as claimed): once a handler has left a staged file that has a header
\* and N >= 0 data rows, it made exactly N data-row puts and exactly one
\* metadata put for the file, the metadata row holding num_rows = N,
\* num_cols = the length of the header and column_names = the header joined
\* by commas.
C1_RowsAndMetadataPerFile ==
    \A k \in 1..Len(opened) :
        LET o == opened[k]
        IN  (HasHeader(o) /\ ~InFile(o)) =>
                /\ Cardinality(PutsOf(o, "data")) = DataRowCount(o)
                /\ Cardinality(PutsOf(o, "metadata")) = 1
                /\ \A i \in PutsOf(o, "metadata") :
                      /\ ValueOf(puts[i], "num_rows") = PyStrInt(DataRowCount(o))
                      /\ ValueOf(puts[i], "num_cols") = PyStrInt(Len(HeaderOf(o)))
                      /\ ValueOf(puts[i], "column_names") = PyJoin(<<",">>, HeaderOf(o))

\* ---------------------------------------------------------------------- C2
\* C2 (as claimed): no data-row put overwrites columns of a row that an
\* earlier put wrote from a different record.
C2_DistinctRecordsDistinctKeys ==
    \A i, j \in 1..Len(puts) :
        ( /\ i < j
          /\ puts[i].kind = "data"
          /\ puts[j].kind = "data"
          /\ puts[i].stored
          /\ puts[j].stored
          /\ puts[i].table = puts[j].table
          /\ puts[i].key = puts[j].key
          /\ \E c \in puts[i].dict, d \in puts[j].dict :
                c.family = d.family /\ c.qualifier = d.qualifier )
        => puts[i].rec = puts[j].rec

\* ---------------------------------------------------------------------- C3
\* The fields a handler builds the row key from (for the listings also the
\* date in the file name).
KeyFields(p) ==
    CASE p.handler \in {"income", "veh"} ->
             <<Col(p.rec, 0), Col(p.rec, 1), Col(p.rec, 3)>>
      [] p.handler = "lookup" -> <<PyStrip(Col(p.rec, 4) \o s_us \o Col(p.rec, 7))>>
      [] p.handler = "idealista" ->
             <<DateStr(p.filename), PyFormat(Lookup(p.rec, k_propertyCode)),
               GetOrNone(p.rec, k_district), GetOrNone(p.rec, k_neighborhood)>>

\* C3: the row key of a data row depends on nothing but the key fields of its
\* record, and when the loader has run again over the same staged files, the
\* store holds the same rows with the same values as when the previous run
\* ended, the ingestion dates apart.
C3_ReloadIdempotent ==
    /\ \A i, j \in 1..Len(puts) :
          ( /\ puts[i].kind = "data"
            /\ puts[j].kind = "data"
            /\ puts[i].handler = puts[j].handler
            /\ KeyFields(puts[i]) = KeyFields(puts[j]) )
          => puts[i].key = puts[j].key
    /\ (pc = "done" /\ run >= 2) => DataView(cells) = snap

\* A second run has ended in which rows of the first were put again and the
\* ingestion date is the later one.
C3_Witness ==
    /\ pc = "done"
    /\ run = 2
    /\ \E i, j \in 1..Len(puts) :
          /\ puts[i].run = 1
          /\ puts[j].run = 2
          /\ puts[i].kind = "data"
          /\ puts[j].kind = "data"
          /\ puts[i].handler = "income"
          /\ puts[i].key = puts[j].key
    /\ \E c \in cells : c.qualifier = "ingestion_date" /\ c.value = NatStr(2)
    /\ \A c \in cells : c.qualifier = "ingestion_date" => c.value # NatStr(1)

\* ---------------------------------------------------------------------- C4
\* C4: in every run the puts of a handler follow the order of its files; the
\* metadata put of a file is the last put of the file and comes when every
\* data row of the file was put, so a file may have data puts and no
\* metadata put, never a metadata put with data rows still to put.
C4_MetadataAfterData ==
    \A i \in 1..Len(puts) :
        LET o == [run |-> puts[i].run, handler |-> puts[i].handler, file |-> puts[i].file]
        IN  /\ \A j \in (i + 1)..Len(puts) :
                  (puts[j].run = o.run /\ puts[j].handler = o.handler)
                  => puts[j].file >= o.file
            /\ puts[i].kind = "metadata" =>
                  /\ \A j \in (i + 1)..Len(puts) :
                        ~(/\ puts[j].run = o.run
                          /\ puts[j].handler = o.handler
                          /\ puts[j].file = o.file)
                  /\ Cardinality({ j \in PutsOf(o, "data") : j < i }) = DataRowCount(o)

\* A first file was put whole, data rows then metadata row, and the run
\* stopped in the second file, which has a data row and no metadata row.
C4_Witness ==
    /\ errorLogged
    /\ \E i, j, k \in 1..Len(puts) :
          /\ i < j
          /\ j < k
          /\ puts[i].handler = puts[k].handler
          /\ puts[j].handler = puts[k].handler
          /\ puts[i].kind = "data"
          /\ puts[i].file = 1
          /\ puts[j].kind = "metadata"
          /\ puts[j].file = 1
          /\ puts[k].kind = "data"
          /\ puts[k].file = 2
          /\ pc # puts[k].handler
          /\ \A l \in 1..Len(puts) :
                ~(puts[l].handler = puts[k].handler /\ puts[l].file = 2
                  /\ puts[l].kind = "metadata")

\* ---------------------------------------------------------------------- C5
\* C5 (as claimed): once a CSV handler has left a staged file that holds a
\* header row and no data row, it made one metadata put for the file, with
\* num_rows = 0, and that put went to a key no other file's metadata was put
\* under.
C5_HeaderOnlyFile ==
    \A k \in 1..Len(opened) :
        LET o == opened[k]
        IN  (o.handler \in CsvHandlers /\ Len(FileOf(o).rows) = 1 /\ ~InFile(o)) =>
                /\ Cardinality(PutsOf(o, "metadata")) = 1
                /\ \A i \in PutsOf(o, "metadata") :
                      /\ ValueOf(puts[i], "num_rows") = <<"0">>
                      /\ \A j \in 1..Len(puts) :
                            ( /\ puts[j].kind = "metadata"
                              /\ puts[j].table = puts[i].table
                              /\ puts[j].file # puts[i].file )
                            => puts[j].key # puts[i].key

\* ---------------------------------------------------------------------- C6
\* The data rows of a staged CSV file.
DataRowsOf(o) == IF FileOf(o).rows = <<>> THEN <<>> ELSE Tail(FileOf(o).rows)

\* C6 (as claimed): every column of a data put of the lookup handler is in
\* the family named by the first underscore token of the file name, and once
\* the handler has left two files with different first tokens, records of
\* the two with the same district id and neighborhood id are stored under
\* one row key, in different families, the row holding the columns of both.
C6_LookupFamilies ==
    /\ \A i \in 1..Len(puts) :
          (puts[i].handler = "lookup" /\ puts[i].kind = "data") =>
              \A c \in puts[i].dict :
                  c.family = SplitFirst(puts[i].filename) \o s_data
    /\ \A k, l \in 1..Len(opened) :
          LET o1 == opened[k]
              o2 == opened[l]
              n1 == SplitFirst(FileOf(o1).name)
              n2 == SplitFirst(FileOf(o2).name)
          IN  ( /\ k < l
                /\ o1.handler = "lookup"
                /\ o2.handler = "lookup"
                /\ o1.run = o2.run
                /\ ~InFile(o2)
                /\ n1 # n2 ) =>
                  \A a \in 1..Len(DataRowsOf(o1)), b \in 1..Len(DataRowsOf(o2)) :
                      LET r1 == DataRowsOf(o1)[a]
                          r2 == DataRowsOf(o2)[b]
                      IN  ( /\ Len(r1) >= 8
                            /\ Len(r2) >= 8
                            /\ Col(r1, 4) = Col(r2, 4)
                            /\ Col(r1, 7) = Col(r2, 7) ) =>
                              /\ lookup_row_key(r1) = lookup_row_key(r2)
                              /\ \A c \in lookup_data_dict(n1, r1), d \in lookup_data_dict(n2, r2) :
                                    c.family # d.family
                              /\ \A c \in lookup_data_dict(n1, r1) \cup lookup_data_dict(n2, r2) :
                                    [table |-> tn_lookup, key |-> lookup_row_key(r1),
                                     family |-> c.family, qualifier |-> c.qualifier,
                                     value |-> c.value] \in cells

\* ---------------------------------------------------------------------- C7
ts_2022_05_10_utc == <<"1","6","5","2","1","4","0","8","0","0">>
ts_2022_05_10_cest == <<"1","6","5","2","1","3","3","6","0","0">>

\* C7: the text after the last underscore of the key of every data put of
\* the listings handler, and the text between idealista_ and _metadata of the
\* key of its metadata puts, is the timestamp of the date in the file name
\* (1652140800 for 2022_05_10 on a UTC machine, 1652133600 two hours east);
\* puts of one file end in the same segment whatever their records hold.
C7_TimestampSegment ==
    /\ \A i \in 1..Len(puts) :
          puts[i].handler = "idealista" =>
              LET ts == extract_timestamp_from_filename(puts[i].filename, utc_offset)
              IN  /\ puts[i].kind = "data" => LastSegment(puts[i].key) = ts
                  /\ puts[i].kind = "metadata" =>
                        puts[i].key = tn_idealista \o s_us \o ts \o s_metadata
                  /\ puts[i].filename = idealista_0510.name =>
                        ts = (IF utc_offset = 0 THEN ts_2022_05_10_utc
                              ELSE ts_2022_05_10_cest)
    /\ \A i, j \in 1..Len(puts) :
          ( /\ puts[i].handler = "idealista"
            /\ puts[j].handler = "idealista"
            /\ puts[i].kind = "data"
            /\ puts[j].kind = "data"
            /\ puts[i].filename = puts[j].filename )
          => LastSegment(puts[i].key) = LastSegment(puts[j].key)

\* Two different objects of one file were put, then the metadata of the file.
C7_Witness ==
    \E i, j, k \in 1..Len(puts) :
        /\ puts[i].handler = "idealista"
        /\ puts[j].handler = "idealista"
        /\ puts[k].handler = "idealista"
        /\ puts[i].kind = "data"
        /\ puts[j].kind = "data"
        /\ puts[k].kind = "metadata"
        /\ puts[i].file = puts[j].file
        /\ puts[j].file = puts[k].file
        /\ puts[i].rec # puts[j].rec
        /\ puts[i].key # puts[j].key

\* ---------------------------------------------------------------------- C8
\* The text {"price":1000}
json_price_1000 == <<"{","\"","p","r","i","c","e","\"",":","1","0","0","0","}">>

\* The text {'price': 1000}
pystr_price_1000 == <<"{","'","p","r","i","c","e","'",":"," ","1","0","0","0","}">>

\* The text {'price': 700, 'status': b'good'}
pystr_price_700_good ==
    <<"{","'","p","r","i","c","e","'",":"," ","7","0","0",","," ","'","s","t","a","t","u","s",
      "'",":"," ","b","'","g","o","o","d","'","}">>

key_P1_D1_N1 == <<"P","1","_","D","1","_","N","1","_">>

\* The put of the object of idealista_2022_05_10.json.
IsExamplePut(p) ==
    /\ p.handler = "idealista"
    /\ p.kind = "data"
    /\ p.filename = idealista_0510.name
    /\ p.rec = idealista_0510.data[1]

\* C8 (as claimed): the object of idealista_2022_05_10.json is put under
\* P1_D1_N1_{timestamp} with one column, which holds {"price":1000}.
C8_JsonRemainder ==
    \A i \in 1..Len(puts) :
        IsExamplePut(puts[i]) =>
            /\ puts[i].key = key_P1_D1_N1
                                \o extract_timestamp_from_filename(puts[i].filename, utc_offset)
            /\ puts[i].dict = { Cell(fam_data, "property_info", json_price_1000) }

\* C8 (amended): every object of the listings is put as a row with the one
\* column data:property_info, which holds Python's str() of the mapping of
\* the object's items other than propertyCode, district and neighborhood
\* (string values as bytes literals); the object of idealista_2022_05_10.json
\* is put under P1_D1_N1_{timestamp} with the column holding
\* {'price': 1000}.
C8_PyStrRemainder ==
    \A i \in 1..Len(puts) :
        (puts[i].handler = "idealista" /\ puts[i].kind = "data") =>
            /\ Cardinality(puts[i].dict) = 1
            /\ Cardinality({ c \in cells : c.table = tn_idealista /\ c.key = puts[i].key }) = 1
            /\ \A c \in puts[i].dict :
                  /\ c.family = fam_data
                  /\ c.qualifier = "property_info"
                  /\ c.value = PyStrDict(Remainder(puts[i].rec))
                  /\ puts[i].rec = idealista_0511.data[2] => c.value = pystr_price_700_good
            /\ \A n \in 1..Len(Remainder(puts[i].rec)) :
                  Remainder(puts[i].rec)[n][1]
                      \notin {k_propertyCode, k_district, k_neighborhood}
            /\ IsExamplePut(puts[i]) =>
                  /\ puts[i].key = key_P1_D1_N1
                        \o extract_timestamp_from_filename(puts[i].filename, utc_offset)
                  /\ puts[i].dict = { Cell(fam_data, "property_info", pystr_price_1000) }

\* The object of idealista_2022_05_10.json was put.
C8_Witness == \E i \in 1..Len(puts) : IsExamplePut(puts[i])

\* ---------------------------------------------------------------------- C9
key_income_1_1_2021 ==
    <<"o","p","e","n","d","a","t","a","b","c","n","-","i","n","c","o","m","e","_","1","_","1",
      "_","2","0","2","1">>

key_income_2021_metadata ==
    <<"o","p","e","n","d","a","t","a","b","c","n","-","i","n","c","o","m","e","_","2","0","2",
      "1","_","m","e","t","a","d","a","t","a">>

\* The put of the data row of income_2021.csv.
IsIncomeExample(p) ==
    /\ p.handler = "income"
    /\ p.kind = "data"
    /\ p.rec = income_2021.rows[2]

\* C9: every data put of the income handler is made from a row after the
\* header, under opendatabcn-income_{column 1}_{column 3}_{column 0}, with
\* the four columns District_Name, Neighborhood_Name, Population and
\* 'Index RFD Barcelona = 100' holding columns 2, 4, 5 and 6; the metadata
\* put of a file with data rows goes to opendatabcn-income_{year of its last
\* data row}_metadata; the row [2021,1,Ciutat Vella,1,Raval,50000,80] goes to
\* opendatabcn-income_1_1_2021 and its file's metadata, with num_rows = 1,
\* to opendatabcn-income_2021_metadata.
C9_IncomeRows ==
    \A i \in 1..Len(puts) :
        LET p == puts[i]
            o == [run |-> p.run, handler |-> p.handler, file |-> p.file]
        IN  p.handler = "income" =>
            /\ p.table = tn_income
            /\ p.kind = "data" =>
                  /\ \E n \in 2..Len(FileOf(o).rows) : FileOf(o).rows[n] = p.rec
                  /\ p.key = tn_income \o s_us \o p.rec[2] \o s_us \o p.rec[4]
                                \o s_us \o p.rec[1]
                  /\ { <<c.family, c.qualifier, c.value>> : c \in p.dict } =
                        { <<fam_data, "District_Name", p.rec[3]>>,
                          <<fam_data, "Neighborhood_Name", p.rec[5]>>,
                          <<fam_data, "Population", p.rec[6]>>,
                          <<fam_data, "Index RFD Barcelona = 100", p.rec[7]>> }
            /\ IsIncomeExample(p) =>
                  /\ p.key = key_income_1_1_2021
                  /\ ValueOf(p, "District_Name") = <<"C","i","u","t","a","t"," ","V","e","l","l","a">>
                  /\ ValueOf(p, "Neighborhood_Name") = <<"R","a","v","a","l">>
                  /\ ValueOf(p, "Population") = <<"5","0","0","0","0">>
                  /\ ValueOf(p, "Index RFD Barcelona = 100") = <<"8","0">>
            /\ (p.kind = "metadata" /\ DataRowCount(o) >= 1) =>
                  /\ p.key = tn_income \o s_us
                                \o FileOf(o).rows[Len(FileOf(o).rows)][1] \o s_metadata
                  /\ FileOf(o) = income_2021 =>
                        /\ p.key = key_income_2021_metadata
                        /\ ValueOf(p, "num_rows") = <<"1">>

\* The example row and the metadata row of its file are in the store.
C9_Witness ==
    /\ \E i \in 1..Len(puts) : IsIncomeExample(puts[i])
    /\ \E c \in cells :
          /\ c.key = key_income_1_1_2021
          /\ c.qualifier = "Population"
          /\ c.value = <<"5","0","0","0","0">>
    /\ \E c \in cells :
          /\ c.key = key_income_2021_metadata
          /\ c.qualifier = "num_rows"
          /\ c.value = <<"1">>

\* --------------------------------------------------------------------- C10
\* C10: a create_hdfs_dir call that returns without a caught exception calls
\* makedirs once when the path did not exist and not at all when it did; a
\* call on an existing path changes nothing; of two calls in a row on one
\* path that did not exist, the first calls makedirs once and the second
\* finds the path and calls nothing.
C10_DirectoryEnsureIdempotent ==
    \A i \in 1..Len(dir_calls) :
        LET c == dir_calls[i]
        IN  /\ ~c.raised => c.makedirs = (IF c.existed THEN 0 ELSE 1)
            /\ ~c.raised => c.folder \in hdfs_dirs
            /\ c.existed => (c.makedirs = 0 /\ ~c.changed)
            /\ ( /\ i > 1
                 /\ dir_calls[i - 1].folder = c.folder
                 /\ ~dir_calls[i - 1].existed
                 /\ ~dir_calls[i - 1].raised
                 /\ ~c.raised ) =>
                   /\ dir_calls[i - 1].makedirs = 1
                   /\ c.existed
                   /\ c.makedirs = 0
                   /\ ~c.changed

\* Two calls in a row on a path that did not exist, and a call on a path
\* that existed before the collection started.
C10_Witness ==
    /\ \E i \in 2..Len(dir_calls) :
          /\ dir_calls[i - 1].folder = dir_calls[i].folder
          /\ ~dir_calls[i - 1].existed
          /\ ~dir_calls[i - 1].raised
          /\ ~dir_calls[i].raised
    /\ dir_calls[1].existed
    /\ ~dir_calls[1].raised

\* --------------------------------------------------------------------- C11
\* C11: once an operation of the collector has raised and the exception was
\* handled (an error is logged), the filesystem client is closed, and from
\* then on no directory is created and no staged file is written in the run.
C11_FirstFailureClosesClient ==
    /\ [](c_errorLogged => client_closed)
    /\ [][c_errorLogged =>
            /\ hdfs_dirs' = hdfs_dirs
            /\ \A i \in 1..Len(hdfs_writes') :
                  i > Len(hdfs_writes) => ~hdfs_writes'[i].stored]_vars

\* --------------------------------------------------------------------- C12
\* C12: in a loader run, once an error was logged (a failed connect, a failed
\* create_table, an error while a file is processed) the connection is closed
\* and stays closed, and no put is made from then on: the put calls and the
\* stored cells stay as they were, for the rest of the failing source and
\* for every source after it.
C12_ClosedWithError ==
    /\ [](errorLogged => ~connection)
    /\ [][errorLogged => (errorLogged' /\ puts' = puts /\ cells' = cells)]_vars

\* A run that put rows, failed and ended, with a later source whose staged
\* files were never opened.
C12_Witness ==
    /\ pc = "done"
    /\ errorLogged
    /\ puts # <<>>
    /\ \E h \in {"veh", "lookup", "idealista"} :
          /\ staged[h] # <<>>
          /\ \A i \in 1..Len(opened) : opened[i].handler # h

\* --------------------------------------------------------------------- C13
\* The column families the source declares for a table.
DeclaredFamilies(table_name) ==
    IF table_name = tn_lookup
    THEN {fam_idealista_data, fam_income_data, fam_metadata}
    ELSE {fam_data, fam_metadata}

\* C13: a create_table call creates the table, with {data, metadata} for the
\* income, vehicle and listings tables and {idealista_data, income_data,
\* metadata} for the lookup table, when no table of that name exists, and
\* leaves the tables as they are otherwise; no table is ever dropped or
\* changed; every put is made after a create_table call of the same run for
\* its table, to a table that exists.
C13_EnsureTableBeforePut ==
    /\ [](\A t \in tables :
             /\ t.families = DeclaredFamilies(t.name)
             /\ \A u \in tables : u.name = t.name => u = t)
    /\ [][ /\ tables \subseteq tables'
           /\ ensured' # ensured =>
                 LET e == ensured'[Len(ensured')]
                 IN  /\ e.existed = TableExists(e.table)
                     /\ tables' = IF e.existed THEN tables
                                  ELSE tables \cup {[name |-> e.table,
                                                     families |-> DeclaredFamilies(e.table)]}
           /\ ensured' = ensured => tables' = tables
           /\ puts' # puts =>
                 LET p == puts'[Len(puts')]
                 IN  /\ TableExists(p.table)
                     /\ \E j \in 1..Len(ensured) :
                           ensured[j].run = p.run /\ ensured[j].table = p.table ]_vars

\* A second run found the four tables, left them alone and put rows to each
\* of two of them.
C13_Witness ==
    /\ run = 2
    /\ Cardinality(tables) = 4
    /\ \E j \in 1..Len(ensured) :
          /\ ensured[j].run = 2
          /\ ensured[j].existed
          /\ ensured[j].table = tn_lookup
    /\ \E i \in 1..Len(puts) : puts[i].run = 2 /\ puts[i].table = tn_lookup
    /\ \E i \in 1..Len(puts) : puts[i].run = 2 /\ puts[i].table = tn_income

\* --------------------------------------------------------------------- C14
\* The staged file has no row at all, header included (a JSON file: no
\* object).
IsEmptyFile(o) ==
    IF o.handler = "idealista" THEN FileOf(o).data = <<>> ELSE FileOf(o).rows = <<>>

\* C14 (as claimed): once a handler has left a staged file with zero rows and
\* no header, it has raised (an error is logged) and made no put for the
\* file, data row or metadata row; and no metadata row is ever put with a
\* negative num_rows.
C14_EmptyFileRaises ==
    /\ \A k \in 1..Len(opened) :
          LET o == opened[k]
          IN  (IsEmptyFile(o) /\ ~InFile(o)) =>
                  /\ errorLogged
                  /\ PutsOf(o, "data") = {}
                  /\ PutsOf(o, "metadata") = {}
    /\ \A i \in 1..Len(puts) :
          puts[i].kind = "metadata" => ValueOf(puts[i], "num_rows")[1] # "-"

\* --------------------------------------------------------------------- C15
\* C15 (as claimed): every put call names only column families the table was
\* created with; for a lookup file that is opened, the family made of the
\* first underscore token of its name and _data is one of the families of
\* the lookup table.
C15_PutsNameDeclaredFamilies ==
    /\ \A i \in 1..Len(puts) :
          \A c \in puts[i].dict : c.family \in Families(puts[i].table)
    /\ \A k \in 1..Len(opened) :
          opened[k].handler = "lookup" =>
              lookup_family(lookup_source_name(FileOf(opened[k]).name))
                  \in Families(tn_lookup)

\* --------------------------------------------------------------------- C16
\* C16 (as claimed): a run in which an operation of the loader, or of the
\* collector, failed and logged an error never logs the success message.
C16_SuccessOnlyWithoutFailure ==
    /\ errorLogged => ~successLogged
    /\ c_errorLogged => ~c_successLogged

====
